---- MODULE Spec2Model ----
(***************************************************************************)
(* callsy: one run of `respond` (src/callsy/src/processing.rs) and of       *)
(* `main` (src/callsy/src/main.rs), as a state machine.                     *)
(*                                                                         *)
(* Strings are sequences of characters; a character is a one-character     *)
(* string, or "U+XXXX" for a character outside ASCII.  Option<T> is a       *)
(* sequence of length 0 (None) or 1 (Some).  A HashMap is a function from   *)
(* its keys; its iteration order is arbitrary, so every loop over one is   *)
(* run in an order chosen with \E.                                         *)
(***************************************************************************)
EXTENDS Integers, Sequences, FiniteSets, TLC

(***************************************************************************)
(* Bounds of the model.                                                    *)
(***************************************************************************)
\* most entries of the "headers" object of an input document
MaxHeaders == 2
\* most overwrite prompts answered with something else than y/yes/n/no
MaxPrompts == 2

(***************************************************************************)
(* Characters.                                                             *)
(***************************************************************************)
UpperLetters ==
    << "A", "B", "C", "D", "E", "F", "G", "H", "I", "J", "K", "L", "M",
       "N", "O", "P", "Q", "R", "S", "T", "U", "V", "W", "X", "Y", "Z" >>

LowerLetters ==
    << "a", "b", "c", "d", "e", "f", "g", "h", "i", "j", "k", "l", "m",
       "n", "o", "p", "q", "r", "s", "t", "u", "v", "w", "x", "y", "z" >>

Digits == << "0", "1", "2", "3", "4", "5", "6", "7", "8", "9" >>

Range(s) == { s[i] : i \in DOMAIN s }

IndexOf(s, c) == CHOOSE i \in DOMAIN s : s[i] = c

\* char::to_lowercase / char::to_uppercase on the characters of the model
ToLowerChar(c) ==
    IF c \in Range(UpperLetters) THEN LowerLetters[IndexOf(UpperLetters, c)] ELSE c

ToUpperChar(c) ==
    IF c \in Range(LowerLetters) THEN UpperLetters[IndexOf(LowerLetters, c)] ELSE c

\* the code point of a character
CodePoint(c) ==
    CASE c = "\t" -> 9
      [] c = "\n" -> 10
      [] c = "\r" -> 13
      [] c = " " -> 32
      [] c = "-" -> 45
      [] c = "/" -> 47
      [] c = ":" -> 58
      [] c = "." -> 46
      [] c = "\"" -> 34
      [] c = "\\" -> 92
      [] c = "{" -> 123
      [] c = "}" -> 125
      [] c = "," -> 44
      [] c = "_" -> 95
      [] c \in Range(Digits) -> 47 + IndexOf(Digits, c)
      [] c \in Range(UpperLetters) -> 64 + IndexOf(UpperLetters, c)
      [] c \in Range(LowerLetters) -> 96 + IndexOf(LowerLetters, c)
      [] c = "U+00E9" -> 233
      [] c = "U+20AC" -> 8364
      [] c = "U+1F600" -> 128512

\* char::encode_utf8: the bytes of one character
Utf8Char(c) ==
    LET cp == CodePoint(c)
    IN  IF cp < 128 THEN << cp >>
        ELSE IF cp < 2048 THEN << 192 + (cp \div 64), 128 + (cp % 64) >>
        ELSE IF cp < 65536
             THEN << 224 + (cp \div 4096), 128 + ((cp \div 64) % 64), 128 + (cp % 64) >>
             ELSE << 240 + (cp \div 262144), 128 + ((cp \div 4096) % 64),
                     128 + ((cp \div 64) % 64), 128 + (cp % 64) >>

(***************************************************************************)
(* Strings.                                                                *)
(***************************************************************************)
\* str::to_lowercase, str::to_uppercase
ToLowercase(s) == [ i \in DOMAIN s |-> ToLowerChar(s[i]) ]

ToUppercase(s) == [ i \in DOMAIN s |-> ToUpperChar(s[i]) ]

\* char::is_whitespace
IsWhitespace(c) == c \in { " ", "\t", "\n", "\r" }

\* str::trim_end
RECURSIVE TrimEnd(_)
TrimEnd(s) ==
    IF s # << >> /\ IsWhitespace(s[Len(s)]) THEN TrimEnd(SubSeq(s, 1, Len(s) - 1)) ELSE s

\* str::as_bytes: the UTF-8 encoding of a string
RECURSIVE AsBytes(_)
AsBytes(s) == IF s = << >> THEN << >> ELSE Utf8Char(Head(s)) \o AsBytes(Tail(s))

\* String::len: the length in bytes of the UTF-8 encoding
StrLen(s) == Len(AsBytes(s))

\* format!("{}", n) of an unsigned integer
RECURSIVE ToDecimal(_)
ToDecimal(n) ==
    IF n < 10 THEN << Digits[n + 1] >> ELSE ToDecimal(n \div 10) \o << Digits[(n % 10) + 1] >>

None == << >>

Some(x) == << x >>

IsSome(o) == o # << >>

Unwrap(o) == o[1]

(***************************************************************************)
(* The library calls of the pipeline.                                      *)
(***************************************************************************)
Ok(v) == [ ok |-> TRUE, val |-> v ]

\* the characters of an HTTP token (http::method METHOD_CHARS, restricted to
\* the characters of the model)
IsTokenChar(c) ==
    c \in Range(UpperLetters) \cup Range(LowerLetters) \cup Range(Digits) \cup { "-", ".", "_" }

StandardMethods ==
    { << "G", "E", "T" >>, << "P", "U", "T" >>, << "P", "O", "S", "T" >>,
      << "H", "E", "A", "D" >>, << "P", "A", "T", "C", "H" >>,
      << "T", "R", "A", "C", "E" >>, << "D", "E", "L", "E", "T", "E" >>,
      << "O", "P", "T", "I", "O", "N", "S" >>, << "C", "O", "N", "N", "E", "C", "T" >> }

\* reqwest::Method::from_bytes: a standard method, or an extension method for
\* any other non-empty token; an error for the empty string and for a string
\* with a character that is no token character
MethodFromBytes(src) ==
    IF src \in StandardMethods THEN Ok([ kind |-> "standard", name |-> src ])
    ELSE IF src # << >> /\ \A i \in DOMAIN src : IsTokenChar(src[i])
         THEN Ok([ kind |-> "extension", name |-> src ])
         ELSE [ ok |-> FALSE ]

\* reqwest::header::HeaderName::from_bytes: the name in lower case; an error
\* for the empty name and for a name with a character that is no token character
HeaderNameFromBytes(k) ==
    IF k # << >> /\ \A i \in DOMAIN k : IsTokenChar(k[i])
    THEN Ok(ToLowercase(k))
    ELSE [ ok |-> FALSE ]

\* reqwest::header::HeaderValue::from_str: every byte is a tab or a visible
\* ASCII character (32..126)
HeaderValueFromStr(v) ==
    IF \A i \in DOMAIN v : v[i] = "\t" \/ (CodePoint(v[i]) >= 32 /\ CodePoint(v[i]) < 127)
    THEN Ok(v)
    ELSE [ ok |-> FALSE ]

IsSchemeChar(c) ==
    c \in Range(UpperLetters) \cup Range(LowerLetters) \cup Range(Digits) \cup { "-", "." }

\* reqwest::Url::parse: an absolute URL starts with a scheme (a letter, then
\* scheme characters) and ":"; anything else is a relative URL without a base
UrlParse(url) ==
    IF \E i \in DOMAIN url :
           /\ i > 1
           /\ url[i] = ":"
           /\ url[1] \in Range(UpperLetters) \cup Range(LowerLetters)
           /\ \A j \in 1 .. (i - 1) : IsSchemeChar(url[j])
    THEN Ok(url)
    ELSE [ ok |-> FALSE, error |-> "relative URL without a base" ]

(***************************************************************************)
(* Values of the pipeline.                                                 *)
(***************************************************************************)
\* Err(format!(msg, arg)): the message and what fills its {}
Err(msg, arg) == [ ok |-> FALSE, msg |-> msg, arg |-> arg ]

\* HashMap::insert
Insert(map, k, v) == [ x \in (DOMAIN map) \cup { k } |-> IF x = k THEN v ELSE map[x] ]

\* the orders in which a loop may visit the keys of a HashMap
Orders(keys) ==
    { o \in [ 1 .. Cardinality(keys) -> keys ] :
          \A i, j \in DOMAIN o : i # j => o[i] # o[j] }

ContentLength == << "c", "o", "n", "t", "e", "n", "t", "-", "l", "e", "n", "g", "t", "h" >>

OverwriteDeclined == "Exited due to inability to overwrite existing file."

ConflictingBodySource == "Cannot provide both a body and body_path."

InvalidMethod == "The provided HTTP method of {} is invalid."

UnresolvableHeader == "Cannot autocomplete value of {} header. Try supplying a value directly."

(***************************************************************************)
(* check_output_file: what one line read from stdin does to the loop.      *)
(***************************************************************************)
\* Confirm with "n" and "no" taken for another way to go on
ConfirmDeclineProceeds(read) ==
    IF ~read.ok THEN "retry"
    ELSE IF TrimEnd(ToLowercase(read.buffer))
                \in { << "y" >>, << "y", "e", "s" >>, << "n" >>, << "n", "o" >> }
         THEN "proceed"
         ELSE "retry"

\* Confirm without trim_end
ConfirmNoTrim(read) ==
    IF ~read.ok THEN "retry"
    ELSE LET answer == ToLowercase(read.buffer)
         IN  IF answer \in { << "y" >>, << "y", "e", "s" >> } THEN "proceed"
             ELSE IF answer \in { << "n" >>, << "n", "o" >> } THEN "abort"
             ELSE "retry"

\* a read is [ok |-> FALSE] (read_line failed) or [ok |-> TRUE, buffer |-> line]
Confirm(read) ==
    IF ~read.ok THEN "retry"
    ELSE LET answer == TrimEnd(ToLowercase(read.buffer))
         IN  IF answer \in { << "y" >>, << "y", "e", "s" >> } THEN "proceed"
             ELSE IF answer \in { << "n" >>, << "n", "o" >> } THEN "abort"
             ELSE "retry"

(***************************************************************************)
(* process_request_data                                                    *)
(***************************************************************************)
\* convert_http_method without to_uppercase
ConvertHttpMethodAsWritten(raw) ==
    LET m == MethodFromBytes(raw.method)
    IN  IF m.ok THEN m ELSE Err(InvalidMethod, raw.method)

\* process_request_data::convert_http_method
ConvertHttpMethod(raw) ==
    LET m == MethodFromBytes(ToUppercase(raw.method))
    IN  IF m.ok THEN m ELSE Err(InvalidMethod, raw.method)

\* the length in characters in place of the length in bytes
AutoValueInChars(body) == ToDecimal(Len(body))

\* the value a null header is completed with
AutoValue(body) == ToDecimal(StrLen(body))

\* the loop with a null header that cannot be completed left out of the result
RECURSIVE ProcessHeadersDropsNull(_, _, _, _)
ProcessHeadersDropsNull(order, raw_headers, body, headers) ==
    IF order = << >> THEN Ok(headers)
    ELSE LET header == Head(order)
             value == raw_headers[header]
         IN  IF IsSome(value)
             THEN ProcessHeadersDropsNull(Tail(order), raw_headers, body,
                                          Insert(headers, header, Unwrap(value)))
             ELSE IF ToLowercase(header) = ContentLength
                  THEN ProcessHeadersDropsNull(Tail(order), raw_headers, body,
                                               Insert(headers, header, AutoValue(body)))
                  ELSE ProcessHeadersDropsNull(Tail(order), raw_headers, body, headers)

\* the loop over raw_request.headers, visiting the keys in `order`
RECURSIVE ProcessHeaders(_, _, _, _)
ProcessHeaders(order, raw_headers, body, headers) ==
    IF order = << >> THEN Ok(headers)
    ELSE LET header == Head(order)
             value == raw_headers[header]
         IN  IF IsSome(value)
             THEN ProcessHeaders(Tail(order), raw_headers, body,
                                 Insert(headers, header, Unwrap(value)))
             ELSE IF ToLowercase(header) = ContentLength
                  THEN ProcessHeaders(Tail(order), raw_headers, body,
                                      Insert(headers, header, AutoValue(body)))
                  ELSE Err(UnresolvableHeader, header)

ProcessRequestData(raw, body, order) ==
    LET method == ConvertHttpMethod(raw)
    IN  IF ~method.ok THEN method
        ELSE LET headers == ProcessHeaders(order, raw.headers, body, << >>)
             IN  IF ~headers.ok THEN headers
                 ELSE Ok([ url |-> raw.url, method |-> method.val,
                           headers |-> headers.val, body |-> body ])

(***************************************************************************)
(* make_request                                                            *)
(***************************************************************************)
\* HeaderMap::insert of one entry of processed_request.headers: the name is
\* stored in lower case and an earlier value under that name is replaced
InsertHeader(map, k, v) == Insert(map, HeaderNameFromBytes(k).val, HeaderValueFromStr(v).val)

\* the loop over processed_request.headers, visiting the keys in `order`;
\* [ok |-> FALSE] when an unwrap() panics
RECURSIVE BuildHeaderMap(_, _, _)
BuildHeaderMap(order, headers, map) ==
    IF order = << >> THEN Ok(map)
    ELSE LET k == Head(order)
             v == headers[k]
         IN  IF ~HeaderNameFromBytes(k).ok \/ ~HeaderValueFromStr(v).ok
             THEN [ ok |-> FALSE ]
             ELSE BuildHeaderMap(Tail(order), headers, InsertHeader(map, k, v))

(***************************************************************************)
(* convert_response, serialize_response                                    *)
(***************************************************************************)
\* HeaderValue::to_str, and "" when it fails
HeaderText(v) == IF HeaderValueFromStr(v).ok THEN v ELSE << >>

ConvertResponse(response) ==
    IF ~IsSome(response.body)
    THEN Err("Failed to get text from response body, {}", << >>)
    ELSE Ok([ headers |-> [ k \in DOMAIN response.headers |-> HeaderText(response.headers[k]) ],
              status_code |-> ToDecimal(response.status),
              body |-> Unwrap(response.body) ])

\* serde_json's escaping of one character of a string
JsonChar(c) ==
    CASE c = "\"" -> << "\\", "\"" >>
      [] c = "\\" -> << "\\", "\\" >>
      [] c = "\n" -> << "\\", "n" >>
      [] c = "\r" -> << "\\", "r" >>
      [] c = "\t" -> << "\\", "t" >>
      [] OTHER -> << c >>

RECURSIVE JsonEscape(_)
JsonEscape(s) == IF s = << >> THEN << >> ELSE JsonChar(Head(s)) \o JsonEscape(Tail(s))

JsonString(s) == << "\"" >> \o JsonEscape(s) \o << "\"" >>

\* the entries of a map of strings, in `order`, separated by commas
RECURSIVE JsonEntries(_, _)
JsonEntries(order, map) ==
    IF order = << >> THEN << >>
    ELSE JsonString(Head(order)) \o << ":" >> \o JsonString(map[Head(order)])
         \o (IF Tail(order) = << >> THEN << >> ELSE << "," >> \o JsonEntries(Tail(order), map))

\* serde_json::to_string(&output_response): the fields in declaration order
SerializeResponse(out, order) ==
    << "{" >> \o JsonString(<< "h", "e", "a", "d", "e", "r", "s" >>) \o << ":", "{" >>
    \o JsonEntries(order, out.headers) \o << "}", "," >>
    \o JsonString(<< "s", "t", "a", "t", "u", "s", "_", "c", "o", "d", "e" >>) \o << ":" >>
    \o JsonString(out.status_code) \o << "," >>
    \o JsonString(<< "b", "o", "d", "y" >>) \o << ":" >> \o JsonString(out.body) \o << "}" >>

(***************************************************************************)
(* The inputs of a run.                                                    *)
(***************************************************************************)
Paths == { "response.json", "body.txt" }

\* what an output path holds before the run
OldBytes == AsBytes(<< "o", "l", "d" >>)

\* the lines stdin may deliver to read_line ("" is the end of input)
Lines ==
    { << "y", "\n" >>, << "Y", "E", "S", "\r", "\n" >>, << "Y", "e", "s", " ", "\n" >>,
      << "n", "\n" >>, << "N", "O" >>, << "N", "o", "\t", "\n" >>,
      << " ", "y", "\n" >>, << "o", "k", "\n" >>, << "\n" >>, << >> }

Reads == { [ ok |-> FALSE ] } \cup { [ ok |-> TRUE, buffer |-> l ] : l \in Lines }

\* errors of the operating system: ENOENT, EACCES
OsErrors == { 2, 13 }

HttpUrl == << "h", "t", "t", "p", ":", "/", "/", "h", "/" >>

Urls == { HttpUrl, << "h", "/", "x" >> }

Methods ==
    { << "g", "e", "t" >>, << "G", "E", "T" >>, << "G", "e", "t" >>,
      << "F", "E", "T", "C", "H" >>, << "G", "E", " ", "T" >>, << >> }

HeaderNames ==
    { << "X", "-", "A" >>, << "x", "-", "a" >>, << "X", " ", "A" >>, ContentLength,
      << "C", "o", "n", "t", "e", "n", "t", "-", "L", "e", "n", "g", "t", "h" >> }

HeaderValues == { None, Some(<< "1" >>), Some(<< "2" >>), Some(<< "\n" >>) }

HeaderMaps ==
    UNION { [ keys -> HeaderValues ] :
                keys \in { k \in SUBSET HeaderNames : Cardinality(k) <= MaxHeaders } }

Bodies == { None, Some(<< "h", "i" >>), Some(<< "U+00E9", "U+20AC" >>) }

BodyPaths == { None, Some("body.in") }

\* what the file at body_path may hold
BodyFileContents == { << "o", "k", "\n" >>, << "U+1F600" >> }

\* RawRequest: every decoded input document of the model
RawRequests ==
    [ url : Urls, method : Methods, headers : HeaderMaps, body : Bodies, body_path : BodyPaths ]

RawRequest(url, method, headers, body, body_path) ==
    [ url |-> url, method |-> method, headers |-> headers, body |-> body,
      body_path |-> body_path ]

\* the input documents of a whole run: one for each way through the pipeline
SampleRequests ==
    { RawRequest(HttpUrl, << "p", "o", "s", "t" >>, (ContentLength :> None),
                 Some(<< "h", "i" >>), None),
      RawRequest(HttpUrl, << "G", "e", "t" >>,
                 (<< "X", "-", "A" >> :> Some(<< "1" >>)) @@ (<< "x", "-", "a" >> :> Some(<< "2" >>)),
                 None, None),
      RawRequest(HttpUrl, << "g", "e", "t" >>, << >>, None, Some("body.in")),
      RawRequest(HttpUrl, << "G", "E", " ", "T" >>, << >>, Some(<< "h", "i" >>), Some("body.in")),
      RawRequest(HttpUrl, << "F", "E", "T", "C", "H" >>, << >>, None, None),
      RawRequest(HttpUrl, << "G", "E", "T" >>, (<< "X", "-", "A" >> :> None), None, None),
      RawRequest(HttpUrl, << "G", "E", "T" >>, (<< "X", " ", "A" >> :> Some(<< "1" >>)), None, None),
      RawRequest(HttpUrl, << "G", "E", "T" >>, (<< "X", "-", "A" >> :> Some(<< "\n" >>)), None, None),
      RawRequest(<< "h", "/", "x" >>, << "G", "E", "T" >>, << >>, None, None) }

\* the content of the input file: a document that decodes, or one that does not
Documents ==
    { [ valid |-> TRUE, request |-> r ] : r \in SampleRequests }
    \cup { [ valid |-> FALSE, line |-> 1, column |-> 2 ] }

\* what the server may answer: status, headers, and the body text (None when
\* reading it fails)
Responses ==
    { [ status |-> 200, headers |-> (<< "x", "-", "a" >> :> << "1" >>), body |-> Some(<< "o", "k" >>) ],
      [ status |-> 201, headers |-> << >>, body |-> Some(<< "h", "i" >>) ],
      [ status |-> 200, headers |-> (<< "x", "-", "a" >> :> << "U+00E9" >>), body |-> Some(<< "\"" >>) ],
      [ status |-> 500, headers |-> << >>, body |-> None ] }

(***************************************************************************)
(* The state of a run.                                                     *)
(***************************************************************************)
VARIABLES
    args,                \* Arguments
    files,               \* the output paths' files: None, or Some(bytes)
    files0,              \* files as they were when the run started
    pc,                  \* the call that respond (or main) makes next
    prompts,             \* the overwrite prompts printed so far
    last_read,           \* the last read_line of check_output_file
    file_contents,       \* respond's locals, None until they are bound
    raw_request,
    body,
    body_for_file,
    processed_request,
    response,
    output_response,
    serialized_response,
    sent,                \* the requests handed to Client::send
    body_file_opens,     \* how often the body_path file was opened
    result,              \* what respond returned, or that the process panicked
    stdout               \* the lines main printed

vars ==
    << args, files, files0, pc, prompts, last_read, file_contents, raw_request, body,
       body_for_file, processed_request, response, output_response, serialized_response,
       sent, body_file_opens, result, stdout >>

Running == [ tag |-> "Running", msg |-> "", arg |-> << >> ]

Returned(r) == IF r.ok THEN [ tag |-> "Ok", msg |-> "", arg |-> << >> ]
               ELSE [ tag |-> "Err", msg |-> r.msg, arg |-> r.arg ]

Panicked == [ tag |-> "Panic", msg |-> "panicked at unwrap()", arg |-> << >> ]

\* the ? operator on an Err, and a panic
Return(r) == result' = Returned(r) /\ pc' = "returned"

Panic == result' = Panicked /\ pc' = "exit"

Locals0 ==
    /\ file_contents = None
    /\ raw_request = None
    /\ body = None
    /\ body_for_file = None
    /\ processed_request = None
    /\ response = None
    /\ output_response = None
    /\ serialized_response = None

\* the process starts: the arguments are parsed, nothing has run
Init ==
    /\ args \in [ request_file : { "request.json" }, output_file : { "response.json" },
                  body_output_file : { None } \cup { Some(p) : p \in Paths } ]
    /\ files \in [ Paths -> { None, Some(OldBytes) } ]
    /\ files0 = files
    /\ pc = "check_output_file"
    /\ prompts = 0
    /\ last_read = None
    /\ Locals0
    /\ sent = << >>
    /\ body_file_opens = 0
    /\ result = Running
    /\ stdout = << >>

(***************************************************************************)
(* respond, one action for each call it makes.                             *)
(***************************************************************************)
\* check_output_file(path): one turn of its loop, or its else branch
CheckStep(path, next) ==
    IF files[path] = None
    THEN /\ pc' = next
         /\ UNCHANGED << prompts, last_read, result >>
    ELSE \E read \in Reads :
             /\ prompts' = prompts + 1
             /\ last_read' = Some(read)
             /\ \/ /\ Confirm(read) = "proceed"
                   /\ pc' = next
                   /\ UNCHANGED result
                \/ /\ Confirm(read) = "abort"
                   /\ Return(Err(OverwriteDeclined, << >>))
                \/ /\ Confirm(read) = "retry"
                   /\ prompts < MaxPrompts
                   /\ UNCHANGED << pc, result >>

CheckOutputFile ==
    /\ pc = "check_output_file"
    /\ CheckStep(args.output_file, "check_body_output_file")
    /\ UNCHANGED << args, files, files0, file_contents, raw_request, body, body_for_file,
                    processed_request, response, output_response, serialized_response,
                    sent, body_file_opens, stdout >>

CheckBodyOutputFile ==
    /\ pc = "check_body_output_file"
    /\ IF IsSome(args.body_output_file)
       THEN CheckStep(Unwrap(args.body_output_file), "open_input_file")
       ELSE /\ pc' = "open_input_file"
            /\ UNCHANGED << prompts, last_read, result >>
    /\ UNCHANGED << args, files, files0, file_contents, raw_request, body, body_for_file,
                    processed_request, response, output_response, serialized_response,
                    sent, body_file_opens, stdout >>

OpenInputFile ==
    /\ pc = "open_input_file"
    /\ \/ /\ pc' = "read_input_file"
          /\ UNCHANGED result
       \/ \E code \in OsErrors :
              Return(Err("Failed to open input file. OS error: {}", ToDecimal(code)))
    /\ UNCHANGED << args, files, files0, prompts, last_read, file_contents, raw_request, body,
                    body_for_file, processed_request, response, output_response,
                    serialized_response, sent, body_file_opens, stdout >>

\* read_to_string fails without an OS error code when the file is not UTF-8:
\* raw_os_error() is None and unwrap() panics
ReadInputFile ==
    /\ pc = "read_input_file"
    /\ \/ \E doc \in Documents :
              /\ file_contents' = Some(doc)
              /\ pc' = "deserialize_request_data"
              /\ UNCHANGED result
       \/ /\ \E code \in OsErrors :
                 Return(Err("Failed to read input file. OS error: {}", ToDecimal(code)))
          /\ UNCHANGED file_contents
       \/ /\ Panic
          /\ UNCHANGED file_contents
    /\ UNCHANGED << args, files, files0, prompts, last_read, raw_request, body,
                    body_for_file, processed_request, response, output_response,
                    serialized_response, sent, body_file_opens, stdout >>

DeserializeRequestData ==
    /\ pc = "deserialize_request_data"
    /\ LET doc == Unwrap(file_contents)
       IN  IF doc.valid
           THEN /\ raw_request' = Some(doc.request)
                /\ pc' = "get_body"
                /\ UNCHANGED result
           ELSE /\ Return(Err("Unable to deserialise data from input file at line {}, column {}.",
                              ToDecimal(doc.line) \o << "," >> \o ToDecimal(doc.column)))
                /\ UNCHANGED raw_request
    /\ UNCHANGED << args, files, files0, prompts, last_read, file_contents, body,
                    body_for_file, processed_request, response, output_response,
                    serialized_response, sent, body_file_opens, stdout >>

\* get_body's match with the body_path arm tried first
BodySourcePrefersFile(raw) ==
    CASE IsSome(raw.body_path) -> "file"
      [] IsSome(raw.body) -> "inline"
      [] OTHER -> "empty"

\* the arm of get_body's match
BodySource(raw) ==
    CASE IsSome(raw.body_path) /\ IsSome(raw.body) -> "conflict"
      [] IsSome(raw.body_path) /\ ~IsSome(raw.body) -> "file"
      [] ~IsSome(raw.body_path) /\ IsSome(raw.body) -> "inline"
      [] OTHER -> "empty"

\* get_body, and body.clone()
GetBody ==
    /\ pc = "get_body"
    /\ LET raw == Unwrap(raw_request)
       IN  \/ /\ BodySource(raw) = "conflict"
              /\ Return(Err(ConflictingBodySource, << >>))
              /\ UNCHANGED << body, body_for_file, body_file_opens >>
           \/ /\ BodySource(raw) = "file"
              /\ body_file_opens' = body_file_opens + 1
              /\ \/ /\ \E code \in OsErrors :
                           Return(Err("Failed to open the body file. OS error: {}", ToDecimal(code)))
                    /\ UNCHANGED << body, body_for_file >>
                 \/ /\ \E code \in OsErrors :
                           Return(Err("Failed to read body file. OS error: {}", ToDecimal(code)))
                    /\ UNCHANGED << body, body_for_file >>
                 \/ /\ Panic
                    /\ UNCHANGED << body, body_for_file >>
                 \/ \E content \in BodyFileContents :
                        /\ body' = Some(content)
                        /\ body_for_file' = Some(content)
                        /\ pc' = "process_request_data"
                        /\ UNCHANGED result
           \/ /\ BodySource(raw) = "inline"
              /\ body' = Some(Unwrap(raw.body))
              /\ body_for_file' = body'
              /\ pc' = "process_request_data"
              /\ UNCHANGED << result, body_file_opens >>
           \/ /\ BodySource(raw) = "empty"
              /\ body' = Some(<< >>)
              /\ body_for_file' = body'
              /\ pc' = "process_request_data"
              /\ UNCHANGED << result, body_file_opens >>
    /\ UNCHANGED << args, files, files0, prompts, last_read, file_contents, raw_request,
                    processed_request, response, output_response, serialized_response,
                    sent, stdout >>

ProcessRequestDataStep ==
    /\ pc = "process_request_data"
    /\ \E order \in Orders(DOMAIN Unwrap(raw_request).headers) :
           LET p == ProcessRequestData(Unwrap(raw_request), Unwrap(body), order)
           IN  IF p.ok
               THEN /\ processed_request' = Some(p.val)
                    /\ pc' = "make_request"
                    /\ UNCHANGED result
               ELSE /\ Return(p)
                    /\ UNCHANGED processed_request
    /\ UNCHANGED << args, files, files0, prompts, last_read, file_contents, raw_request, body,
                    body_for_file, response, output_response, serialized_response,
                    sent, body_file_opens, stdout >>

MakeRequest ==
    /\ pc = "make_request"
    /\ LET p == Unwrap(processed_request)
       IN  IF ~UrlParse(p.url).ok
           THEN /\ Return(Err("Error while parsing URL. {}", << >>))
                /\ UNCHANGED << sent, response >>
           ELSE \E order \in Orders(DOMAIN p.headers) :
                    LET headers == BuildHeaderMap(order, p.headers, << >>)
                    IN  IF ~headers.ok
                        THEN /\ Panic
                             /\ UNCHANGED << sent, response >>
                        ELSE /\ sent' = Append(sent, [ method |-> p.method, url |-> p.url,
                                                       headers |-> headers.val, body |-> p.body ])
                             /\ \/ /\ Return(Err("Error when sending the request, {}", << >>))
                                   /\ UNCHANGED response
                                \/ \E r \in Responses :
                                       /\ response' = Some(r)
                                       /\ pc' = "convert_response"
                                       /\ UNCHANGED result
    /\ UNCHANGED << args, files, files0, prompts, last_read, file_contents, raw_request, body,
                    body_for_file, processed_request, output_response, serialized_response,
                    body_file_opens, stdout >>

ConvertResponseStep ==
    /\ pc = "convert_response"
    /\ LET c == ConvertResponse(Unwrap(response))
       IN  IF c.ok
           THEN /\ output_response' = Some(c.val)
                /\ pc' = "serialize_response"
                /\ UNCHANGED result
           ELSE /\ Return(c)
                /\ UNCHANGED output_response
    /\ UNCHANGED << args, files, files0, prompts, last_read, file_contents, raw_request, body,
                    body_for_file, processed_request, response, serialized_response,
                    sent, body_file_opens, stdout >>

SerializeResponseStep ==
    /\ pc = "serialize_response"
    /\ \E order \in Orders(DOMAIN Unwrap(output_response).headers) :
           serialized_response' = Some(SerializeResponse(Unwrap(output_response), order))
    /\ pc' = "open_output_file"
    /\ UNCHANGED << args, files, files0, prompts, last_read, file_contents, raw_request, body,
                    body_for_file, processed_request, response, output_response,
                    sent, body_file_opens, result, stdout >>

\* File::create: the file exists afterwards and is empty
Create(path) == [ files EXCEPT ![path] = Some(<< >>) ]

\* file.write(bytes) on a file just created: the call may accept any number
\* n of the bytes, and returns Ok(n)
Written(path, bytes, n) == [ files EXCEPT ![path] = Some(SubSeq(bytes, 1, n)) ]

OpenOutputFile ==
    /\ pc = "open_output_file"
    /\ \/ /\ files' = Create(args.output_file)
          /\ pc' = "write_to_output_file"
          /\ UNCHANGED result
       \/ /\ \E code \in OsErrors :
                 Return(Err("Failed to create output file. OS error {}", ToDecimal(code)))
          /\ UNCHANGED files
    /\ UNCHANGED << args, files0, prompts, last_read, file_contents, raw_request, body,
                    body_for_file, processed_request, response, output_response,
                    serialized_response, sent, body_file_opens, stdout >>

\* (the {} of its message is the error as displayed; the model puts its code)
WriteToOutputFile ==
    /\ pc = "write_to_output_file"
    /\ LET bytes == AsBytes(Unwrap(serialized_response))
       IN  \/ \E n \in 0 .. Len(bytes) :
                  /\ files' = Written(args.output_file, bytes, n)
                  /\ pc' = "open_and_write_to_body_output_file"
                  /\ UNCHANGED result
           \/ /\ \E code \in OsErrors :
                     Return(Err("Failed to write to output file. OS error {}", ToDecimal(code)))
              /\ UNCHANGED files
    /\ UNCHANGED << args, files0, prompts, last_read, file_contents, raw_request, body,
                    body_for_file, processed_request, response, output_response,
                    serialized_response, sent, body_file_opens, stdout >>

\* the response body in place of the request body
BodyFileBytesOfResponse == AsBytes(Unwrap(output_response).body)

\* what open_and_write_to_body_output_file writes
BodyFileBytes == AsBytes(Unwrap(body_for_file))

OpenAndWriteToBodyOutputFile ==
    /\ pc = "open_and_write_to_body_output_file"
    /\ IF ~IsSome(args.body_output_file)
       THEN /\ Return(Ok(<< >>))
            /\ UNCHANGED files
       ELSE LET path == Unwrap(args.body_output_file)
            IN  \/ /\ \E code \in OsErrors :
                          Return(Err("Failed to create output file. OS error {}", ToDecimal(code)))
                   /\ UNCHANGED files
                \/ /\ files' = Create(path)
                   /\ \E code \in OsErrors :
                          Return(Err("Failed to write to output file. OS error {}", ToDecimal(code)))
                \/ \E n \in 0 .. Len(BodyFileBytes) :
                       /\ files' = Written(path, BodyFileBytes, n)
                       /\ Return(Ok(<< >>))
    /\ UNCHANGED << args, files0, prompts, last_read, file_contents, raw_request, body,
                    body_for_file, processed_request, response, output_response,
                    serialized_response, sent, body_file_opens, stdout >>

(***************************************************************************)
(* main: respond has returned.                                             *)
(***************************************************************************)
Main ==
    /\ pc = "returned"
    /\ stdout' = IF result.tag = "Err"
                 THEN Append(stdout, [ prefix |-> "Error: ", msg |-> result.msg, arg |-> result.arg ])
                 ELSE stdout
    /\ pc' = "exit"
    /\ UNCHANGED << args, files, files0, prompts, last_read, file_contents, raw_request, body,
                    body_for_file, processed_request, response, output_response,
                    serialized_response, sent, body_file_opens, result >>

Next ==
    \/ CheckOutputFile
    \/ CheckBodyOutputFile
    \/ OpenInputFile
    \/ ReadInputFile
    \/ DeserializeRequestData
    \/ GetBody
    \/ ProcessRequestDataStep
    \/ MakeRequest
    \/ ConvertResponseStep
    \/ SerializeResponseStep
    \/ OpenOutputFile
    \/ WriteToOutputFile
    \/ OpenAndWriteToBodyOutputFile
    \/ Main

Spec == Init /\ [][Next]_vars

(***************************************************************************)
(* Normalization alone: the run from a decoded document to the request     *)
(* that is sent, for every RawRequest of the model.                        *)
(***************************************************************************)
InitNormalize ==
    /\ args = [ request_file |-> "request.json", output_file |-> "response.json",
                body_output_file |-> None ]
    /\ files = [ p \in Paths |-> None ]
    /\ files0 = files
    /\ pc = "get_body"
    /\ prompts = 0
    /\ last_read = None
    /\ raw_request \in { Some(r) : r \in RawRequests }
    /\ file_contents = Some([ valid |-> TRUE, request |-> Unwrap(raw_request) ])
    /\ body = None
    /\ body_for_file = None
    /\ processed_request = None
    /\ response = None
    /\ output_response = None
    /\ serialized_response = None
    /\ sent = << >>
    /\ body_file_opens = 0
    /\ result = Running
    /\ stdout = << >>

NextNormalize ==
    \/ GetBody
    \/ ProcessRequestDataStep
    \/ MakeRequest
    \/ Main

SpecNormalize == InitNormalize /\ [][NextNormalize]_vars

(***************************************************************************)
(* Properties.                                                             *)
(***************************************************************************)
Finished == pc \in { "returned", "exit" }

IsPrefix(a, b) == Len(a) <= Len(b) /\ a = SubSeq(b, 1, Len(a))

ErrResult(msg, arg) == [ tag |-> "Err", msg |-> msg, arg |-> arg ]

\* the lines of Lines that answer yes, and those that answer no
YesLines ==
    { << "y", "\n" >>, << "Y", "E", "S", "\r", "\n" >>, << "Y", "e", "s", " ", "\n" >> }

NoLines == { << "n", "\n" >>, << "N", "O" >>, << "N", "o", "\t", "\n" >> }

\* the last line read at an overwrite prompt answered no
Declined == IsSome(last_read) /\ Unwrap(last_read).ok /\ Unwrap(last_read).buffer \in NoLines

\* C1: once an overwrite prompt is answered "no", the run has ended with the
\* overwrite-declined error, no request has been sent and both output paths
\* hold what they held when the run started.
C1_DeclineAborts ==
    Declined =>
        /\ Finished
        /\ result = ErrResult(OverwriteDeclined, << >>)
        /\ sent = << >>
        /\ files = files0

\* the prompt for the body-output path was answered no, after another answer,
\* in a run whose main output path did not exist
C1_Witness ==
    /\ Declined
    /\ pc = "exit"
    /\ prompts >= 2
    /\ files0[args.output_file] = None
    /\ IsSome(args.body_output_file)
    /\ stdout = << [ prefix |-> "Error: ", msg |-> OverwriteDeclined, arg |-> << >> ] >>

\* C2: a run that ends in a failure leaves both output paths as they were
\* when the run started.
C2_FailureLeavesFilesUntouched ==
    (Finished /\ result.tag \in { "Err", "Panic" }) => files = files0

\* C3: no run ends in a panic: every failure is an Err that main prints.
C3_NeverPanics == result.tag # "Panic"

(***************************************************************************)
(* Properties of normalization.                                            *)
(***************************************************************************)
\* process_request_data has been called
Normalized == IsSome(body) /\ pc # "process_request_data"

Raw == Unwrap(raw_request)

Get == << "G", "E", "T" >>

Fetch == << "F", "E", "T", "C", "H" >>

\* the method strings of Methods that are no HTTP token
NoTokens == { << "G", "E", " ", "T" >>, << >> }

\* the null-valued headers that are not content-length
NullOthers ==
    { h \in DOMAIN Raw.headers : Raw.headers[h] = None /\ ToLowercase(h) # ContentLength }

\* the null-valued content-length headers
NullLengths ==
    { h \in DOMAIN Raw.headers : Raw.headers[h] = None /\ ToLowercase(h) = ContentLength }

\* C4 as stated: "get", "GET" and "Get" normalize to GET, and "FETCH" fails
\* with InvalidMethod and nothing is sent.
C4_FetchIsInvalid ==
    Normalized =>
        /\ Raw.method \in { << "g", "e", "t" >>, Get, << "G", "e", "t" >> } =>
               /\ result.msg # InvalidMethod
               /\ IsSome(processed_request) => Unwrap(processed_request).method.name = Get
        /\ Raw.method = Fetch =>
               /\ result = ErrResult(InvalidMethod, Fetch)
               /\ sent = << >>

\* C4, amended: "get", "GET" and "Get" normalize to the one standard method
\* GET; "FETCH" is a legal token and normalizes to the extension method FETCH;
\* a string that is no token fails with InvalidMethod naming it as written,
\* and nothing is sent. A valid method normalizes whenever no null header is
\* left unresolved.
C4_MethodResolution ==
    Normalized =>
        /\ Raw.method \in { << "g", "e", "t" >>, Get, << "G", "e", "t" >> } =>
               /\ result.msg # InvalidMethod
               /\ IsSome(processed_request) =>
                      Unwrap(processed_request).method = [ kind |-> "standard", name |-> Get ]
        /\ Raw.method = Fetch =>
               /\ result.msg # InvalidMethod
               /\ IsSome(processed_request) =>
                      Unwrap(processed_request).method = [ kind |-> "extension", name |-> Fetch ]
        /\ Raw.method \in NoTokens =>
               /\ result = ErrResult(InvalidMethod, Raw.method)
               /\ processed_request = None
               /\ sent = << >>
        /\ (Raw.method \notin NoTokens /\ NullOthers = { }) => IsSome(processed_request)

\* a request with the extension method FETCH was sent
C4_Witness ==
    /\ Normalized
    /\ Raw.method = Fetch
    /\ sent # << >>
    /\ sent[1].method = [ kind |-> "extension", name |-> Fetch ]

\* C5 as stated: a null-valued header other than content-length makes
\* normalization fail with UnresolvableHeader naming such a header, and
\* nothing is sent.
C5_NullHeaderIsUnresolvable ==
    (Normalized /\ NullOthers # { }) =>
        /\ result.tag = "Err"
        /\ result.msg = UnresolvableHeader
        /\ result.arg \in NullOthers
        /\ sent = << >>

\* C5, amended: with a null-valued header other than content-length no
\* OutboundRequest is built and nothing is sent; the error is
\* UnresolvableHeader, naming one of those headers, when the method string is
\* a token, and InvalidMethod when it is not.
C5_NullHeaderStopsRun ==
    NullOthers # { } =>
        /\ processed_request = None
        /\ sent = << >>
        /\ (Normalized /\ Raw.method \notin NoTokens) =>
               /\ result.tag = "Err"
               /\ result.msg = UnresolvableHeader
               /\ result.arg \in NullOthers
        /\ (Normalized /\ Raw.method \in NoTokens) =>
               result = ErrResult(InvalidMethod, Raw.method)

\* two null headers, one of them named by the error that main printed
C5_Witness ==
    /\ Cardinality(NullOthers) = 2
    /\ pc = "exit"
    /\ result.msg = UnresolvableHeader
    /\ result.arg = << "x", "-", "a" >>
    /\ stdout # << >>

BothBodies == IsSome(Raw.body) /\ IsSome(Raw.body_path)

\* C6: with both body and body_path set, the run fails with
\* ConflictingBodySource, whatever the method, the headers and the url are;
\* the body_path file is not opened and nothing is sent.
C6_ConflictingBodySource ==
    BothBodies =>
        /\ body_file_opens = 0
        /\ sent = << >>
        /\ body = None
        /\ pc # "get_body" =>
               /\ Finished
               /\ result = ErrResult(ConflictingBodySource, << >>)

\* the conflict was reported for a document whose method, headers and url are
\* all in error as well
C6_Witness ==
    /\ BothBodies
    /\ Raw.method \in NoTokens
    /\ NullOthers # { }
    /\ ~UrlParse(Raw.url).ok
    /\ pc = "exit"
    /\ result = ErrResult(ConflictingBodySource, << >>)
    /\ stdout # << >>

\* the decimal byte length of each body of the model
ExpectedLength(b) ==
    CASE b = << >> -> << "0" >>
      [] b = << "h", "i" >> -> << "2" >>
      [] b = << "o", "k", "\n" >> -> << "3" >>
      [] b = << "U+1F600" >> -> << "4" >>
      [] b = << "U+00E9", "U+20AC" >> -> << "5" >>

\* C7: when normalization succeeds, every null-valued content-length header
\* is in the OutboundRequest under its key as written, with the decimal byte
\* length of the resolved body, and that resolved body (the inline body, the
\* file's content, or the empty string) is the body that is sent.
C7_ContentLength ==
    IsSome(processed_request) =>
        /\ \A h \in NullLengths :
               /\ h \in DOMAIN Unwrap(processed_request).headers
               /\ Unwrap(processed_request).headers[h] = ExpectedLength(Unwrap(body))
        /\ Unwrap(processed_request).body = Unwrap(body)
        /\ BodySource(Raw) = "inline" => Unwrap(body) = Unwrap(Raw.body)
        /\ BodySource(Raw) = "empty" => Unwrap(body) = << >>
        /\ BodySource(Raw) = "file" => Unwrap(body) \in BodyFileContents
        /\ \A i \in DOMAIN sent : sent[i].body = Unwrap(body)

\* a body of two characters and five bytes was sent, its length under the
\* key "Content-Length" as written
C7_Witness ==
    /\ IsSome(processed_request)
    /\ << "C", "o", "n", "t", "e", "n", "t", "-", "L", "e", "n", "g", "t", "h" >> \in NullLengths
    /\ Unwrap(processed_request).headers[
           << "C", "o", "n", "t", "e", "n", "t", "-", "L", "e", "n", "g", "t", "h" >>] = << "5" >>
    /\ Len(sent) = 1
    /\ sent[1].body = << "U+00E9", "U+20AC" >>

\* C8: every key of the input's headers, case variants included, has its own
\* entry with its own value in the headers of the request that is sent.
C8_CaseVariantsPreserved ==
    \A i \in DOMAIN sent :
        /\ Cardinality(DOMAIN sent[i].headers) = Cardinality(DOMAIN Raw.headers)
        /\ \A h \in DOMAIN Raw.headers :
               sent[i].headers[ToLowercase(h)] = Unwrap(processed_request).headers[h]

(***************************************************************************)
(* Properties of the overwrite confirmation and of the body-output file.   *)
(***************************************************************************)
Checking == pc \in { "check_output_file", "check_body_output_file" }

\* the path whose overwrite is being confirmed, if any
CheckedPath ==
    IF pc = "check_output_file" THEN Some(args.output_file) ELSE args.body_output_file

AfterCheck ==
    IF pc = "check_output_file" THEN "check_body_output_file" ELSE "open_input_file"

\* all but pc, prompts, last_read and result
Rest ==
    << args, files, files0, file_contents, raw_request, body, body_for_file,
       processed_request, response, output_response, serialized_response, sent,
       body_file_opens, stdout >>

\* C9: a step of the confirmation reads one line. A line that is y or yes,
\* lower-cased and without its trailing whitespace, ends the loop and the run
\* goes on; one that is n or no ends it with the abort error; any other line,
\* the empty line at the end of input and a failed read only cause another
\* prompt. For a path that does not exist there is no prompt and the run
\* goes on.
C9_ConfirmLoop ==
    [][ Checking =>
            /\ UNCHANGED Rest
            /\ IF CheckedPath = None \/ files[Unwrap(CheckedPath)] = None
               THEN /\ pc' = AfterCheck
                    /\ UNCHANGED << prompts, last_read, result >>
               ELSE /\ prompts' = prompts + 1
                    /\ IsSome(last_read')
                    /\ LET read == Unwrap(last_read')
                       IN  IF read.ok /\ read.buffer \in YesLines
                           THEN pc' = AfterCheck /\ result' = Running
                           ELSE IF read.ok /\ read.buffer \in NoLines
                                THEN /\ pc' = "returned"
                                     /\ result' = ErrResult(OverwriteDeclined, << >>)
                                ELSE UNCHANGED << pc, result >>
      ]_vars

\* "YES\r\n" let the run go on after an earlier prompt was answered otherwise
C9_Witness ==
    /\ prompts = 2
    /\ last_read = Some([ ok |-> TRUE, buffer |-> << "Y", "E", "S", "\r", "\n" >> ])
    /\ files0[args.output_file] # None
    /\ pc = "check_body_output_file"
    /\ result = Running

BodyOutputPath == Unwrap(args.body_output_file)

====
